---- MODULE Spec2Model ----
(***************************************************************************)
(* A model of deco.py: the decorators disable, countcalls, memo, n_ary and *)
(* trace, the decorated functions foo, bar and fib, and an interpreter of  *)
(* the synchronous call/return discipline through which they are invoked.  *)
(*                                                                         *)
(* A function object is a record; the table objs holds every function      *)
(* object of the program, and a wrapper refers to its target by the        *)
(* target's index in the table (field func).  A call pushes a frame; a     *)
(* return or a raise pops it and leaves the outcome in ret.                *)
(***************************************************************************)
EXTENDS Integers, Sequences, FiniteSets, TLC

(* ---------------- bounds ---------------- *)
MaxCalls == 4        \* top-level calls made to a stateful program
MaxNaryCalls == 1    \* top-level calls made to a bare n_ary wrapper
MaxLen == 3          \* operands drawn for a bare n_ary wrapper
MaxN == 4            \* largest argument passed to fib

(* ---------------- values ---------------- *)
\* Python values are the naturals and None; None is encoded as -1.
None == -1
NoAttr == -2         \* the attribute is absent from the function's __dict__
NoDoc == "None"      \* __doc__ of a function without a docstring

IsNone(x) == x = None

Val(v) == [kind |-> "val", val |-> v]
Exc(e) == [kind |-> "exc", val |-> e]
NoRet == [kind |-> "none", val |-> None]

TypeError == 1
TargetError == 2

RECURSIVE SumSeq(_)
SumSeq(s) == IF s = <<>> THEN 0 ELSE Head(s) + SumSeq(Tail(s))

(* ---------------- function objects ---------------- *)
EmptyCache == <<>>    \* a function with empty domain

\* def <name>(...): a plain function, with its body kind
Def(name, doc, body) ==
  [kind |-> "raw", body |-> body, func |-> 0, name |-> name, doc |-> doc,
   calls |-> NoAttr, cache |-> EmptyCache, level |-> 0, delimiter |-> 0]

\* the inner "def wrapper" of a decorator, before functools.wraps
DefWrapper(kind, f) ==
  [kind |-> kind, body |-> "wrapper", func |-> f, name |-> "wrapper",
   doc |-> NoDoc, calls |-> NoAttr, cache |-> EmptyCache, level |-> 0,
   delimiter |-> 0]

\* a wraps that assigns __name__ and __doc__ and leaves __dict__ alone
functools_wraps_NoDict(w, func) ==
  [w EXCEPT !.name = func.name, !.doc = func.doc]

\* functools.wraps(func): __name__ and __doc__ are assigned from func and
\* the wrapper's __dict__ is updated with func's __dict__ (here: calls).
functools_wraps(w, func) ==
  [w EXCEPT !.name = func.name, !.doc = func.doc, !.calls = func.calls]

disable(t, f) == Append(t, functools_wraps(DefWrapper("disable", f), t[f]))

countcalls(t, f) ==
  Append(t, [functools_wraps(DefWrapper("countcalls", f), t[f])
               EXCEPT !.calls = 0])

memo(t, f) ==
  Append(t, [functools_wraps(DefWrapper("memo", f), t[f])
               EXCEPT !.cache = EmptyCache])

n_ary(t, f) == Append(t, DefWrapper("n_ary", f))

\* trace(delim)(func); the delimiter is modelled by its length
trace(delim, t, f) ==
  Append(t, [functools_wraps(DefWrapper("trace", f), t[f])
               EXCEPT !.level = 0, !.delimiter = delim])

(* ---------------- programs ---------------- *)
\* foo decorated in the order of bar
foo_CountOutermost ==
  LET t1 == <<Def("foo", NoDoc, "add")>>
      t2 == n_ary(t1, 1)
      t3 == memo(t2, 2)
  IN  countcalls(t3, 3)

\* foo = memo(countcalls(n_ary(foo)))
foo ==
  LET t1 == <<Def("foo", NoDoc, "add")>>
      t2 == n_ary(t1, 1)
      t3 == countcalls(t2, 2)
  IN  memo(t3, 3)

\* bar decorated in the order of foo
bar_MemoOutermost ==
  LET t1 == <<Def("bar", NoDoc, "mul")>>
      t2 == n_ary(t1, 1)
      t3 == countcalls(t2, 2)
  IN  memo(t3, 3)

\* bar = countcalls(memo(n_ary(bar)))
bar ==
  LET t1 == <<Def("bar", NoDoc, "mul")>>
      t2 == n_ary(t1, 1)
      t3 == memo(t2, 2)
  IN  countcalls(t3, 3)

\* fib with countcalls applied first
fib_CountInsideMemo ==
  LET t1 == <<Def("fib", "Some doc", "fib")>>
      t2 == countcalls(t1, 1)
      t3 == memo(t2, 2)
  IN  trace(4, t3, 3)

\* fib with memo applied after trace
fib_MemoOutsideTrace ==
  LET t1 == <<Def("fib", "Some doc", "fib")>>
      t2 == trace(4, t1, 1)
      t3 == memo(t2, 2)
  IN  countcalls(t3, 3)

\* fib = countcalls(trace("####")(memo(fib)))
fib ==
  LET t1 == <<Def("fib", "Some doc", "fib")>>
      t2 == memo(t1, 1)
      t3 == trace(4, t2, 2)
  IN  countcalls(t3, 3)

\* single decorators around an instrumented target T; T returns a value
\* computed from its arguments, the target R may also raise
MemoT == memo(<<Def("T", "T doc", "T")>>, 1)
MemoR == memo(<<Def("R", "R doc", "R")>>, 1)
CountR == countcalls(<<Def("R", "R doc", "R")>>, 1)
TraceR == trace(1, <<Def("R", "R doc", "R")>>, 1)
DisableR == disable(<<Def("R", "R doc", "R")>>, 1)
\* the two orders of trace and memo, each around a target of its own:
\* trace(d)(memo(T)) is function object 3, memo(trace(d)(T)) is 6
Order(body) ==
  LET t3 == trace(1, memo(<<Def("T", "T doc", body)>>, 1), 2)
      t4 == Append(t3, Def("T", "T doc", body))
  IN  memo(trace(1, t4, 4), 5)
OrderT == Order("T")
OrderR == Order("R")
\* two countcalls, two memo and two trace wrappers made independently
\* around one target: function objects 2 to 7 around function object 1
Pair ==
  LET t3 == countcalls(countcalls(<<Def("T", "T doc", "T")>>, 1), 1)
      t5 == memo(memo(t3, 1), 1)
  IN  trace(1, trace(1, t5, 1), 1)
\* trace around a recursive target that catches the error of its recursive
\* call, and memo around a target that calls the wrapper again with the
\* arguments it was called with
TraceC == trace(1, <<Def("C", "C doc", "C")>>, 1)
MemoE == memo(<<Def("E", "E doc", "E")>>, 1)
\* memo around T, called with keyword arguments
MemoKw == memo(<<Def("T", "T doc", "T")>>, 1)
NaryAdd == n_ary(<<Def("add", NoDoc, "add")>>, 1)
NaryOp == n_ary(<<Def("op", "op doc", "op")>>, 1)

Programs ==
  [name : {"foo"}, objs : {foo}] \cup
  [name : {"bar"}, objs : {bar}] \cup
  [name : {"fib"}, objs : {fib}] \cup
  [name : {"MemoT"}, objs : {MemoT}] \cup
  [name : {"MemoR"}, objs : {MemoR}] \cup
  [name : {"CountR"}, objs : {CountR}] \cup
  [name : {"TraceR"}, objs : {TraceR}] \cup
  [name : {"DisableR"}, objs : {DisableR}] \cup
  [name : {"OrderT"}, objs : {OrderT}] \cup
  [name : {"OrderR"}, objs : {OrderR}] \cup
  [name : {"Pair"}, objs : {Pair}] \cup
  [name : {"TraceC"}, objs : {TraceC}] \cup
  [name : {"MemoE"}, objs : {MemoE}] \cup
  [name : {"MemoKw"}, objs : {MemoKw}] \cup
  [name : {"NaryAdd"}, objs : {NaryAdd}] \cup
  [name : {"NaryOp"}, objs : {NaryOp}]

NaryProgs == {"NaryAdd", "NaryOp"}

(* ---------------- inputs ---------------- *)
Args(a) == [args |-> a, kwargs |-> <<>>]

\* keyword arguments are (name, value) pairs in the order they are written
\* at the call; the names a and b are 1 and 2, in their alphabetical order
KwInputs ==
  {<<>>, << <<1, 1>> >>, << <<1, 1>>, <<2, 2>> >>, << <<2, 2>>, <<1, 1>> >>}

\* operands of a bare n_ary wrapper: every sequence over OpVals up to MaxLen
OpVals == {None, 0, 1}
RECURSIVE SeqsUpTo(_, _)
SeqsUpTo(S, n) ==
  IF n = 0 THEN {<<>>}
  ELSE LET P == SeqsUpTo(S, n - 1)
       IN  P \cup {Append(s, x) : s \in {q \in P : Len(q) = n - 1}, x \in S}

CallInputs(p) ==
  CASE p \in {"foo", "bar"} ->
         {Args(<<4, 3>>), Args(<<4, 3, 2>>), Args(<<4, 3, 2, 1>>), Args(<<4>>)}
    [] p = "fib" -> {Args(<<n>>) : n \in 0..MaxN}
    [] p = "Pair" -> {Args(<<1>>)}
    [] p = "TraceC" -> {Args(<<n>>) : n \in 0..2}
    [] p = "MemoE" -> {Args(<<>>), Args(<<1>>)}
    [] p = "MemoKw" ->
         {[args |-> a, kwargs |-> kw] : a \in {<<>>, <<1>>}, kw \in KwInputs}
    [] p \in NaryProgs -> {Args(a) : a \in SeqsUpTo(OpVals, MaxLen)}
    [] p \in {"OrderT", "OrderR"} -> {Args(<<1>>), Args(<<2>>)}
    [] OTHER -> {Args(<<>>), Args(<<1>>), Args(<<2>>), Args(<<1, 2>>)}

CallLimit(p) == IF p \in NaryProgs THEN MaxNaryCalls ELSE MaxCalls

(* ---------------- state ---------------- *)
VARIABLES
  prog,      \* name of the program under execution
  objs,      \* table of function objects
  stack,     \* call stack, innermost frame last
  ret,       \* outcome of the frame that finished last
  out,       \* lines printed on standard output
  toplog,    \* top-level calls made so far
  ninv,      \* number of invocations made of each function object
  bodylog    \* executions of the raw target's body, in order

vars == <<prog, objs, stack, ret, out, toplog, ninv, bodylog>>

\* the global name of the decorated function is bound to the outermost
\* wrapper, the function object built last
bind == Len(objs)

\* the function objects a caller can name: the ones no decorator has wrapped
Callable == {j \in DOMAIN objs : \A w \in DOMAIN objs : objs[w].func # j}

Init ==
  \E p \in Programs :
    /\ prog = p.name
    /\ objs = p.objs
    /\ stack = <<>>
    /\ ret = NoRet
    /\ out = <<>>
    /\ toplog = <<>>
    /\ ninv = [i \in 1..Len(p.objs) |-> 0]
    /\ bodylog = <<>>

(* ---------------- calls and returns ---------------- *)
Top == stack[Len(stack)]
TopObj == objs[Top.obj]
Running(kind, pc) ==
  /\ stack # <<>>
  /\ TopObj.kind = kind
  /\ Top.pc = pc

Returned(kind, pc) == Running(kind, pc) /\ ret.kind # "none"

NewFrame(f, a, kw) ==
  [obj |-> f, args |-> a, kwargs |-> kw, pc |-> "start", result |-> None,
   i |-> 0]

\* the running frame becomes fr and calls function object f with (a, kw)
Invoke(fr, f, a, kw) ==
  /\ stack' = Append([stack EXCEPT ![Len(stack)] = fr], NewFrame(f, a, kw))
  /\ ninv' = [ninv EXCEPT ![f] = @ + 1]
  /\ ret' = NoRet
  /\ UNCHANGED toplog

\* the running frame finishes with outcome r: a value returned or an
\* exception raised; the outcome of a top-level call is noted in toplog
Finish(r) ==
  /\ stack' = SubSeq(stack, 1, Len(stack) - 1)
  /\ ret' = r
  /\ toplog' = IF Len(stack) = 1
               THEN [toplog EXCEPT ![Len(toplog)].ret = r]
               ELSE toplog
  /\ UNCHANGED ninv

\* the running frame goes on as fr without calling or returning
Goto(fr) ==
  /\ stack' = [stack EXCEPT ![Len(stack)] = fr]
  /\ ret' = NoRet
  /\ UNCHANGED <<toplog, ninv>>

\* a call made by main(), or by any other top-level caller
Call ==
  \E f \in Callable, inp \in CallInputs(prog) :
    /\ stack = <<>>
    /\ Len(toplog) < CallLimit(prog)
    /\ stack' = <<NewFrame(f, inp.args, inp.kwargs)>>
    /\ ninv' = [ninv EXCEPT ![f] = @ + 1]
    /\ ret' = NoRet
    /\ toplog' = Append(toplog, [obj |-> f, args |-> inp.args,
                                 kwargs |-> inp.kwargs, ret |-> NoRet])
    /\ UNCHANGED <<prog, objs, out, bodylog>>

(* ---------------- disable ---------------- *)
DisableCall ==
  /\ Running("disable", "start")
  /\ Invoke([Top EXCEPT !.pc = "wait"], TopObj.func, Top.args, Top.kwargs)
  /\ UNCHANGED <<prog, objs, out, bodylog>>

DisableReturn ==
  /\ Returned("disable", "wait")
  /\ Finish(ret)
  /\ UNCHANGED <<prog, objs, out, bodylog>>

(* ---------------- countcalls ---------------- *)
\* countcalls whose counter is one global shared by all its wrappers
CountcallsCall_GlobalCounter ==
  /\ Running("countcalls", "start")
  /\ objs' = [j \in DOMAIN objs |->
                IF objs[j].kind = "countcalls"
                THEN [objs[j] EXCEPT !.calls = @ + 1]
                ELSE objs[j]]
  /\ Invoke([Top EXCEPT !.pc = "wait"], TopObj.func, Top.args, Top.kwargs)
  /\ UNCHANGED <<prog, out, bodylog>>

\* countcalls that counts the calls made from outside only, not the calls
\* the target makes back into the wrapper
CountcallsCall_TopLevelOnly ==
  /\ Running("countcalls", "start")
  /\ objs' = [objs EXCEPT ![Top.obj].calls =
                IF Len(stack) = 1 THEN @ + 1 ELSE @]
  /\ Invoke([Top EXCEPT !.pc = "wait"], TopObj.func, Top.args, Top.kwargs)
  /\ UNCHANGED <<prog, out, bodylog>>

\* wrapper.calls += 1, then func(*args, **kwargs) is called
CountcallsCall ==
  /\ Running("countcalls", "start")
  /\ objs' = [objs EXCEPT ![Top.obj].calls = @ + 1]
  /\ Invoke([Top EXCEPT !.pc = "wait"], TopObj.func, Top.args, Top.kwargs)
  /\ UNCHANGED <<prog, out, bodylog>>

CountcallsReturn ==
  /\ Returned("countcalls", "wait")
  /\ Finish(ret)
  /\ UNCHANGED <<prog, objs, out, bodylog>>

(* ---------------- memo ---------------- *)
\* sorted(kwargs.items()): the (name, value) pairs in the order of their
\* names; kwargs is the sequence of pairs in the order they were written
RECURSIVE Insert(_, _)
Insert(s, x) ==
  IF s = <<>> THEN <<x>>
  ELSE IF x[1] < Head(s)[1] THEN <<x>> \o s
  ELSE <<Head(s)>> \o Insert(Tail(s), x)

RECURSIVE sorted(_)
sorted(items) ==
  IF items = <<>> THEN <<>>
  ELSE Insert(sorted(SubSeq(items, 1, Len(items) - 1)), items[Len(items)])

\* the key built without sorting the keyword arguments
all_args_Unsorted(fr) == <<fr.args, fr.kwargs>>

all_args(fr) == <<fr.args, sorted(fr.kwargs)>>

\* memo whose lookup never hits
MemoCall_NoHit ==
  /\ Running("memo", "start")
  /\ Invoke([Top EXCEPT !.pc = "wait"], TopObj.func, Top.args, Top.kwargs)
  /\ UNCHANGED <<prog, objs, out, bodylog>>

\* a hit returns cache[all_args]; a miss calls func(*args, **kwargs)
MemoCall ==
  /\ Running("memo", "start")
  /\ IF all_args(Top) \in DOMAIN TopObj.cache
     THEN Finish(Val(TopObj.cache[all_args(Top)]))
     ELSE Invoke([Top EXCEPT !.pc = "wait"], TopObj.func, Top.args,
                 Top.kwargs)
  /\ UNCHANGED <<prog, objs, out, bodylog>>

\* memo that returns the value of func without storing it
MemoReturn_NoStore ==
  /\ Returned("memo", "wait")
  /\ Finish(ret)
  /\ UNCHANGED <<prog, objs, out, bodylog>>

\* memo that empties its cache when func raises
MemoReturn_ClearsOnError ==
  /\ Returned("memo", "wait")
  /\ IF ret.kind = "exc"
     THEN /\ objs' = [objs EXCEPT ![Top.obj].cache = EmptyCache]
          /\ Finish(ret)
     ELSE LET cache == (all_args(Top) :> ret.val) @@ TopObj.cache
          IN  /\ objs' = [objs EXCEPT ![Top.obj].cache = cache]
              /\ Finish(Val(cache[all_args(Top)]))
  /\ UNCHANGED <<prog, out, bodylog>>

\* memo that stores None for a call that raised
MemoReturn_CachesError ==
  /\ Returned("memo", "wait")
  /\ LET v == IF ret.kind = "exc" THEN None ELSE ret.val
         cache == (all_args(Top) :> v) @@ TopObj.cache
     IN  /\ objs' = [objs EXCEPT ![Top.obj].cache = cache]
         /\ Finish(ret)
  /\ UNCHANGED <<prog, out, bodylog>>

\* cache[all_args] = <value returned by func>; return cache[all_args].
\* An exception raised by func leaves the assignment undone.
MemoReturn ==
  /\ Returned("memo", "wait")
  /\ IF ret.kind = "exc"
     THEN /\ Finish(ret)
          /\ UNCHANGED objs
     ELSE LET cache == (all_args(Top) :> ret.val) @@ TopObj.cache
          IN  /\ objs' = [objs EXCEPT ![Top.obj].cache = cache]
              /\ Finish(Val(cache[all_args(Top)]))
  /\ UNCHANGED <<prog, out, bodylog>>

(* ---------------- n_ary ---------------- *)
\* def wrapper(*args): a keyword argument is a TypeError; result = None
NaryCall ==
  /\ Running("n_ary", "start")
  /\ IF Top.kwargs # <<>>
     THEN Finish(Exc(TypeError))
     ELSE Goto([Top EXCEPT !.pc = "loop", !.result = None,
                           !.i = Len(Top.args)])
  /\ UNCHANGED <<prog, objs, out, bodylog>>

\* n_ary that folds from the first iteration on: result = func(i, result)
NaryLoop_AlwaysFolds ==
  /\ Running("n_ary", "loop")
  /\ IF Top.i = 0
     THEN Finish(Val(Top.result))
     ELSE Invoke([Top EXCEPT !.pc = "wait"], TopObj.func,
                 <<Top.args[Top.i], Top.result>>, <<>>)
  /\ UNCHANGED <<prog, objs, out, bodylog>>

\* one iteration of "for i in reversed(args)", up to the call of func;
\* "return result" when the operands are exhausted
NaryLoop ==
  /\ Running("n_ary", "loop")
  /\ IF Top.i = 0
     THEN Finish(Val(Top.result))
     ELSE IF IsNone(Top.result)
     THEN Goto([Top EXCEPT !.result = Top.args[Top.i], !.i = @ - 1])
     ELSE Invoke([Top EXCEPT !.pc = "wait"], TopObj.func,
                 <<Top.args[Top.i], Top.result>>, <<>>)
  /\ UNCHANGED <<prog, objs, out, bodylog>>

\* result = <value returned by func(i, result)>
NaryReturn ==
  /\ Returned("n_ary", "wait")
  /\ IF ret.kind = "exc"
     THEN Finish(ret)
     ELSE Goto([Top EXCEPT !.pc = "loop", !.result = ret.val, !.i = @ - 1])
  /\ UNCHANGED <<prog, objs, out, bodylog>>

(* ---------------- trace ---------------- *)
\* a printed line: level repetitions of the delimiter, the direction, the
\* name of the traced function, the positional arguments and the result
Line(dir, o, fr, result) ==
  [dir |-> dir, level |-> o.level, delimiter |-> o.delimiter,
   name |-> objs[o.func].name, args |-> fr.args, result |-> result]

\* print the entry line; level += 1; call func(*args, **kwargs); the frame
\* notes in i which line of out its entry line is
TraceCall ==
  /\ Running("trace", "start")
  /\ out' = Append(out, Line("-->", TopObj, Top, None))
  /\ objs' = [objs EXCEPT ![Top.obj].level = @ + 1]
  /\ Invoke([Top EXCEPT !.pc = "wait", !.i = Len(out) + 1], TopObj.func,
            Top.args, Top.kwargs)
  /\ UNCHANGED <<prog, bodylog>>

\* trace that reports the end of a call in a finally clause
TraceReturn_PrintsOnError ==
  /\ Returned("trace", "wait")
  /\ LET o == [TopObj EXCEPT !.level = @ - 1]
         r == IF ret.kind = "exc" THEN None ELSE ret.val
     IN  /\ objs' = [objs EXCEPT ![Top.obj] = o]
         /\ out' = Append(out, Line("<--", o, Top, r))
         /\ Finish(ret)
  /\ UNCHANGED <<prog, bodylog>>

\* level -= 1; print the exit line; return result.  An exception raised
\* by func leaves the wrapper at once.
TraceReturn ==
  /\ Returned("trace", "wait")
  /\ IF ret.kind = "exc"
     THEN /\ Finish(ret)
          /\ UNCHANGED <<objs, out>>
     ELSE LET o == [TopObj EXCEPT !.level = @ - 1]
          IN  /\ objs' = [objs EXCEPT ![Top.obj] = o]
              /\ out' = Append(out, Line("<--", o, Top, ret.val))
              /\ Finish(ret)
  /\ UNCHANGED <<prog, bodylog>>

(* ---------------- decorated functions ---------------- *)
\* the note of one execution of a raw body: its arguments and, for a body
\* that makes no call, its outcome
Ran(fr, r) ==
  [obj |-> fr.obj, args |-> fr.args, kwargs |-> fr.kwargs, ret |-> r]

\* the binary operation under n_ary: a + b (foo), a * b (bar), and a total
\* operation on OpVals that takes and returns None as well
Enc(v) == IF IsNone(v) THEN 0 ELSE v + 1
Dec(c) == IF c = 0 THEN None ELSE c - 1
op(a, b) == Dec((2 * Enc(a) + Enc(b) + 1) % 3)

Binary(body, a, b) ==
  CASE body = "op" -> Val(op(a, b))
    [] IsNone(a) \/ IsNone(b) -> Exc(TypeError)
    [] body = "add" -> Val(a + b)
    [] body = "mul" -> Val(a * b)

BinaryBody ==
  /\ stack # <<>>
  /\ TopObj.kind = "raw"
  /\ TopObj.body \in {"add", "mul", "op"}
  /\ LET r == IF Len(Top.args) # 2 \/ Top.kwargs # <<>>
              THEN Exc(TypeError)
              ELSE Binary(TopObj.body, Top.args[1], Top.args[2])
     IN  /\ bodylog' = Append(bodylog, Ran(Top, r))
         /\ Finish(r)
  /\ UNCHANGED <<prog, objs, out>>

\* the instrumented target: its result is a function of its arguments
TResult(a, kw) == 1 + SumSeq(a) + 10 * SumSeq([j \in 1..Len(kw) |-> kw[j][2]])

\* T returns TResult; R returns TResult or raises
TargetBody ==
  /\ stack # <<>>
  /\ TopObj.kind = "raw"
  /\ TopObj.body \in {"T", "R"}
  /\ \E raises \in (IF TopObj.body = "R" THEN BOOLEAN ELSE {FALSE}) :
       LET r == IF raises THEN Exc(TargetError)
                ELSE Val(TResult(Top.args, Top.kwargs))
       IN  /\ bodylog' = Append(bodylog, Ran(Top, r))
           /\ Finish(r)
  /\ UNCHANGED <<prog, objs, out>>

\* return 1 if n <= 1 else fib(n-1) + fib(n-2): the name fib is the global
\* one, bound to the outermost wrapper
FibBody ==
  /\ Running("raw", "start")
  /\ TopObj.body = "fib"
  /\ bodylog' = Append(bodylog, Ran(Top, NoRet))
  /\ IF Len(Top.args) # 1 \/ Top.kwargs # <<>>
     THEN Finish(Exc(TypeError))
     ELSE IF Top.args[1] <= 1
     THEN Finish(Val(1))
     ELSE Invoke([Top EXCEPT !.pc = "left"], bind, <<Top.args[1] - 1>>, <<>>)
  /\ UNCHANGED <<prog, objs, out>>

\* fib whose second recursive call is made to the undecorated function
FibLeft_CallsRawDirectly ==
  /\ Returned("raw", "left")
  /\ IF ret.kind = "exc"
     THEN Finish(ret)
     ELSE Invoke([Top EXCEPT !.pc = "right", !.result = ret.val], Top.obj,
                 <<Top.args[1] - 2>>, <<>>)
  /\ UNCHANGED <<prog, objs, out, bodylog>>

FibLeft ==
  /\ Returned("raw", "left")
  /\ IF ret.kind = "exc"
     THEN Finish(ret)
     ELSE Invoke([Top EXCEPT !.pc = "right", !.result = ret.val], bind,
                 <<Top.args[1] - 2>>, <<>>)
  /\ UNCHANGED <<prog, objs, out, bodylog>>

FibRight ==
  /\ Returned("raw", "right")
  /\ IF ret.kind = "exc"
     THEN Finish(ret)
     ELSE Finish(Val(Top.result + ret.val))
  /\ UNCHANGED <<prog, objs, out, bodylog>>

\* a target that calls the wrapper on n - 1 and catches what it raises:
\*   if n == 0: raise; try: return C(n - 1); except: return n
CatchBody ==
  /\ Running("raw", "start")
  /\ TopObj.body = "C"
  /\ IF Top.args[1] = 0
     THEN /\ bodylog' = Append(bodylog, Ran(Top, Exc(TargetError)))
          /\ Finish(Exc(TargetError))
     ELSE /\ bodylog' = Append(bodylog, Ran(Top, NoRet))
          /\ Invoke([Top EXCEPT !.pc = "try"], bind, <<Top.args[1] - 1>>,
                    <<>>)
  /\ UNCHANGED <<prog, objs, out>>

CatchReturn ==
  /\ Returned("raw", "try")
  /\ IF ret.kind = "exc"
     THEN Finish(Val(Top.args[1]))
     ELSE Finish(ret)
  /\ UNCHANGED <<prog, objs, out, bodylog>>

\* a target that is not referentially transparent: unless it is running
\* already, it calls the wrapper with its own arguments and returns that
\* result plus one; the call made while it is running returns 10
ReentrantBody ==
  /\ Running("raw", "start")
  /\ TopObj.body = "E"
  /\ bodylog' = Append(bodylog, Ran(Top, NoRet))
  /\ IF \E d \in 1..(Len(stack) - 1) : stack[d].obj = Top.obj
     THEN Finish(Val(10))
     ELSE Invoke([Top EXCEPT !.pc = "inner"], bind, Top.args, Top.kwargs)
  /\ UNCHANGED <<prog, objs, out>>

ReentrantReturn ==
  /\ Returned("raw", "inner")
  /\ IF ret.kind = "exc"
     THEN Finish(ret)
     ELSE Finish(Val(ret.val + 1))
  /\ UNCHANGED <<prog, objs, out, bodylog>>

(* ---------------- specification ---------------- *)
Next ==
  \/ Call
  \/ DisableCall \/ DisableReturn
  \/ CountcallsCall \/ CountcallsReturn
  \/ MemoCall \/ MemoReturn
  \/ NaryCall \/ NaryLoop \/ NaryReturn
  \/ TraceCall \/ TraceReturn
  \/ BinaryBody \/ TargetBody
  \/ FibBody \/ FibLeft \/ FibRight
  \/ CatchBody \/ CatchReturn
  \/ ReentrantBody \/ ReentrantReturn

Spec == Init /\ [][Next]_vars

(* ---------------- properties ---------------- *)
Idle == stack = <<>>
KeyOf(e) == all_args(e)
Keys(log) == {KeyOf(log[j]) : j \in DOMAIN log}
Times(log, k) == Cardinality({j \in DOMAIN log : KeyOf(log[j]) = k})
Returns(log) == {j \in DOMAIN log : log[j].ret.kind = "val"}
Raises(log) == {j \in DOMAIN log : log[j].ret.kind = "exc"}
Index(kind) == CHOOSE j \in DOMAIN objs : objs[j].kind = kind
Has(kind) == \E j \in DOMAIN objs : objs[j].kind = kind
\* the frames of function object j that have called their target
Active(j) == {d \in DOMAIN stack : stack[d].obj = j /\ stack[d].pc # "start"}
\* 1 while the call of function object j on top has not run its first step
Pending(j) == IF stack # <<>> /\ Top.obj = j /\ Top.pc = "start" THEN 1 ELSE 0

\* C1: a memo-wrapped target that does not raise runs its body exactly once
\* for each distinct argument key that was called: never twice for one key,
\* and once every call has returned, once for each key called; every call
\* returns the target's result for its arguments.
C1_MemoRunsTargetOncePerKey ==
  prog = "MemoT" =>
    /\ \A k \in Keys(bodylog) : Times(bodylog, k) = 1
    /\ Idle => Keys(bodylog) = Keys(toplog)
    /\ \A j \in DOMAIN toplog :
         toplog[j].ret.kind # "none" =>
           toplog[j].ret = Val(TResult(toplog[j].args, toplog[j].kwargs))

\* two calls with equal arguments, then one with other arguments, have run
\* the body of T twice
C1_Witness ==
  /\ prog = "MemoT"
  /\ Idle
  /\ Len(toplog) = 3
  /\ KeyOf(toplog[1]) = KeyOf(toplog[2])
  /\ KeyOf(toplog[3]) # KeyOf(toplog[1])
  /\ Len(bodylog) = 2

\* C2: the counter of a countcalls wrapper equals the number of invocations
\* made of the wrapper, top-level or recursive, returned or raised; it is
\* incremented before the target is invoked, so it equals the number of
\* invocations made of the target as well.
C2_CallsCountsInvocations ==
  \A c \in DOMAIN objs :
    objs[c].kind = "countcalls" =>
      /\ objs[c].calls = ninv[c] - Pending(c)
      /\ (\A w \in DOMAIN objs : objs[w].func = objs[c].func => w = c)
           => objs[c].calls = ninv[objs[c].func]

\* three invocations of countcalls(R), of which one raised and one returned
C2_Witness ==
  /\ prog = "CountR"
  /\ Idle
  /\ Len(toplog) = 3
  /\ Raises(toplog) # {}
  /\ Returns(toplog) # {}
  /\ objs[bind].calls = 3

\* the right fold op(a1, op(a2, ... op(a_{n-1}, a_n))) of two operands or
\* more, and the invocations of op it makes, from the last pair to the first;
\* an invocation that raises ends the fold
RECURSIVE RightFold(_, _)
RightFold(body, a) ==
  IF Len(a) = 2 THEN Binary(body, a[1], a[2])
  ELSE LET inner == RightFold(body, Tail(a))
       IN  IF inner.kind = "exc" THEN inner
           ELSE Binary(body, a[1], inner.val)

RECURSIVE RightFoldCalls(_, _)
RightFoldCalls(body, a) ==
  IF Len(a) = 2 THEN <<<<a[1], a[2]>>>>
  ELSE LET inner == RightFold(body, Tail(a))
       IN  IF inner.kind = "exc" THEN RightFoldCalls(body, Tail(a))
           ELSE Append(RightFoldCalls(body, Tail(a)), <<a[1], inner.val>>)

\* C3: for two operands or more, whatever their values, None included,
\* n_ary(op)(a1..an) is the right fold of op over the operands, and op is
\* invoked on exactly the pairs of that fold, from the last toward the first.
C3_NaryIsRightFold ==
  (prog \in NaryProgs /\ Idle /\ toplog # <<>>) =>
    LET c == toplog[Len(toplog)]
        body == objs[1].body
    IN  Len(c.args) >= 2 =>
          /\ c.ret = RightFold(body, c.args)
          /\ [j \in DOMAIN bodylog |-> bodylog[j].args]
               = RightFoldCalls(body, c.args)

\* the printed lines of one direction, and those about one argument tuple
Printed(dir) == {j \in DOMAIN out : out[j].dir = dir}
PrintedFor(dir, a) == {j \in Printed(dir) : out[j].args = a}

\* C4 as claimed: in countcalls(trace(memo(fib))) a recursive call whose
\* argument is already in the memo cache prints no trace line, so that
\* during a first fib(n) each argument has at most one entry line and one
\* exit line.
C4_CacheHitPrintsNoTraceLine ==
  (prog = "fib" /\ Len(toplog) = 1) =>
    \A n \in 0..3 :
      /\ Cardinality(PrintedFor("-->", <<n>>)) <= 1
      /\ Cardinality(PrintedFor("<--", <<n>>)) <= 1

FibLine(dir, level, n, result) ==
  [dir |-> dir, level |-> level, delimiter |-> 4, name |-> "fib",
   args |-> <<n>>, result |-> result]

\* the lines of a first fib(3): those of the docstring of trace
Fib3Lines ==
  << FibLine("-->", 0, 3, None),
     FibLine("-->", 1, 2, None),
     FibLine("-->", 2, 1, None),
     FibLine("<--", 2, 1, 1),
     FibLine("-->", 2, 0, None),
     FibLine("<--", 2, 0, 1),
     FibLine("<--", 1, 2, 2),
     FibLine("-->", 1, 1, None),
     FibLine("<--", 1, 1, 1),
     FibLine("<--", 0, 3, 3) >>

\* C4 as amended: in countcalls(trace(memo(fib))) trace is outside memo, so
\* every invocation prints its entry line and, on return, its exit line,
\* a cache hit included; only the body of fib is skipped on a hit.  A first
\* fib(3) prints the ten lines of the docstring of trace, the second fib(1)
\* among them, and runs the body of fib for 3, 2, 1 and 0 only.
C4_CacheHitIsTraced ==
  prog = "fib" =>
    /\ Cardinality(Printed("-->"))
         = ninv[Index("trace")] - Pending(Index("trace"))
    /\ Idle => Cardinality(Printed("<--")) = Cardinality(Printed("-->"))
    /\ (Idle /\ Len(toplog) = 1 /\ toplog[1].args = <<3>>) =>
         /\ out = Fib3Lines
         /\ [j \in DOMAIN bodylog |-> bodylog[j].args]
              = << <<3>>, <<2>>, <<1>>, <<0>> >>

\* a first fib(3) has returned, its second fib(1) found in the cache
C4_Witness ==
  /\ prog = "fib"
  /\ Idle
  /\ Len(toplog) = 1
  /\ toplog[1].args = <<3>>
  /\ toplog[1].ret = Val(3)
  /\ Cardinality(PrintedFor("-->", <<1>>)) = 2
  /\ Len(bodylog) = 4

\* C5: the depth counter of a trace wrapper equals the number of invocations
\* through the wrapper that are active on the call stack (that have entered
\* their target and not left it); it is 0 when none is in progress.
C5_LevelIsActiveDepth ==
  \A t \in DOMAIN objs :
    objs[t].kind = "trace" => objs[t].level = Cardinality(Active(t))

\* the calls made before call j that returned a value for the same function
\* object and the same argument key
Earlier(j) ==
  {h \in Returns(toplog) :
     h < j /\ toplog[h].obj = toplog[j].obj
           /\ KeyOf(toplog[h]) = KeyOf(toplog[j])}

\* C6: when the target of a memo wrapper raises, the caller gets the error,
\* nothing is stored for the key, and the next call with equal arguments
\* invokes the target again: the cache holds the keys of the calls that
\* returned, the target has run once for every call not preceded by a call
\* that returned for the same key, and every call that raised has raised the
\* target's error.
C6_MemoDoesNotCacheErrors ==
  (prog = "MemoR" /\ Idle) =>
    /\ DOMAIN objs[bind].cache = {KeyOf(toplog[j]) : j \in Returns(toplog)}
    /\ Len(bodylog)
         = Cardinality({j \in DOMAIN toplog : Earlier(j) = {}})
    /\ Cardinality(Raises(toplog)) = Cardinality(Raises(bodylog))
    /\ \A j \in Raises(toplog) : toplog[j].ret = Exc(TargetError)
    /\ \A j \in Returns(toplog) :
         toplog[j].ret = Val(TResult(toplog[j].args, toplog[j].kwargs))

\* a call raised, and the next call with equal arguments ran the target
\* again and returned
C6_Witness ==
  /\ prog = "MemoR"
  /\ Idle
  /\ Len(toplog) = 2
  /\ KeyOf(toplog[1]) = KeyOf(toplog[2])
  /\ toplog[1].ret = Exc(TargetError)
  /\ toplog[2].ret.kind = "val"
  /\ Len(bodylog) = 2
  /\ DOMAIN objs[bind].cache = {KeyOf(toplog[1])}

\* C7: with the counter outermost, countcalls(memo(f)), the counter equals
\* the number of calls made to the wrapper, cache hits included.
C7_OuterCounterCountsEveryCall ==
  prog = "bar" =>
    /\ objs[bind].calls = Len(toplog) - Pending(bind)
    /\ Cardinality(DOMAIN objs[Index("memo")].cache) <= Len(toplog)

\* (4,3), (4,3), (4,3,2): three calls counted, one of them a cache hit
C7_Witness ==
  /\ prog = "bar"
  /\ Idle
  /\ [j \in DOMAIN toplog |-> toplog[j].args]
       = << <<4, 3>>, <<4, 3>>, <<4, 3, 2>> >>
  /\ objs[bind].calls = 3
  /\ ninv[Index("n_ary")] = 2

\* C8: with the memo outermost, memo(countcalls(f)) and f not raising, the
\* inner counter equals the number of distinct argument keys called, once
\* the calls have returned: a cache hit makes no invocation of the inner
\* wrapper.
C8_InnerCounterCountsDistinctKeys ==
  (prog = "foo" /\ Idle) =>
    /\ objs[Index("countcalls")].calls = Cardinality(Keys(toplog))
    /\ ninv[Index("countcalls")] = Cardinality(Keys(toplog))

\* (4,3), (4,3), (4,3,2): the inner counter is 2
C8_Witness ==
  /\ prog = "foo"
  /\ Idle
  /\ [j \in DOMAIN toplog |-> toplog[j].args]
       = << <<4, 3>>, <<4, 3>>, <<4, 3, 2>> >>
  /\ objs[Index("countcalls")].calls = 2
  /\ toplog[2].ret = Val(7)

\* what a line says, its indentation left aside
Says(l) ==
  [dir |-> l.dir, name |-> l.name, args |-> l.args, result |-> l.result]

\* what the lines of one call made to a trace wrapper around T say
TLines(c) ==
  LET entry == [dir |-> "-->", name |-> "T", args |-> c.args,
                result |-> None]
  IN  IF c.ret.kind = "val"
      THEN <<entry, [entry EXCEPT !.dir = "<--", !.result = c.ret.val]>>
      ELSE <<entry>>

\* the lines of the first n top-level calls when trace(d)(memo(T)), function
\* object 3, prints for every call and memo(trace(d)(T)), function object
\* 6, prints for the calls that are not cache hits
RECURSIVE OrderLines(_)
OrderLines(n) ==
  IF n = 0 THEN <<>>
  ELSE OrderLines(n - 1) \o
       (IF toplog[n].obj = 6 /\ Earlier(n) # {} THEN <<>>
        ELSE TLines(toplog[n]))

\* C9: for a repeated argument set, trace(d)(memo(f)) prints the entry line
\* and the exit line of every call, cache hits included, and
\* memo(trace(d)(f)) prints the lines of the first call with a key and
\* nothing on a cache hit (the exit line is that of a call that returns; a
\* call of f that raises stores no key, so that it is no cache hit).
C9_OuterTracePrintsOuterMemoSilent ==
  (prog \in {"OrderT", "OrderR"} /\ Idle) =>
    /\ [j \in DOMAIN out |-> Says(out[j])] = OrderLines(Len(toplog))
    /\ \A j \in DOMAIN toplog : Earlier(j) # {} => toplog[j].ret.kind = "val"

\* both orders called twice with the same argument: four lines from the
\* outer trace, two from the outer memo
C9_Witness ==
  /\ prog = "OrderT"
  /\ Idle
  /\ [j \in DOMAIN toplog |-> toplog[j].obj] = <<3, 3, 6, 6>>
  /\ \A j \in DOMAIN toplog : toplog[j].args = <<1>>
  /\ Len(out) = 6
  /\ Len(bodylog) = 2

\* C10: every wrapper made by disable, countcalls, memo, n_ary or trace(d)
\* has the name and the documentation of its target, through any stack.
C10_WrapperExposesTargetMetadata ==
  \A w \in DOMAIN objs :
    objs[w].kind # "raw" =>
      /\ objs[w].name = objs[objs[w].func].name
      /\ objs[w].doc = objs[objs[w].func].doc

\* the function objects a call of function object j goes through
RECURSIVE Chain(_)
Chain(j) == IF objs[j].func = 0 THEN {j} ELSE {j} \cup Chain(objs[j].func)

\* C11: wrappers made independently, around the same target or around
\* different ones, do not interfere: a step changes the counter, the cache
\* or the depth of a wrapper only if the call in progress goes through that
\* wrapper.
C11_IndependentWrappersDoNotInterfere ==
  [][\A w \in DOMAIN objs :
       objs'[w] # objs[w] =>
         /\ toplog # <<>>
         /\ w \in Chain(toplog[Len(toplog)].obj)]_vars

\* one countcalls, one memo and one trace wrapper around T have been called,
\* the trace wrapper is still running; their twins are as constructed
C11_Witness ==
  /\ prog = "Pair"
  /\ objs[2].calls = 1 /\ objs[3].calls = 0
  /\ DOMAIN objs[4].cache # {} /\ DOMAIN objs[5].cache = {}
  /\ objs[6].level = 1 /\ objs[7].level = 0
  /\ ninv[1] = 3

\* what the lines of the top-level calls 1..n to trace(d)(R) say when a
\* call that raises has an entry line and no exit line
RECURSIVE TraceRLines(_)
TraceRLines(n) ==
  IF n = 0 THEN <<>>
  ELSE LET c == toplog[n]
           entry == [dir |-> "-->", name |-> "R", args |-> c.args,
                     result |-> None]
       IN  TraceRLines(n - 1) \o
           (IF c.ret.kind = "val"
            THEN <<entry, [entry EXCEPT !.dir = "<--", !.result = c.ret.val]>>
            ELSE <<entry>>)

\* C12: when the target of a trace wrapper raises, the caller gets the
\* target's error, the entry line of the invocation has been printed and no
\* exit line is printed for it: there is an entry line for every invocation
\* and an exit line for every invocation but those that raised.
C12_NoExitLineWhenTargetRaises ==
  (prog \in {"TraceR", "TraceC"} /\ Idle) =>
    /\ Cardinality(Printed("-->")) = ninv[bind]
    /\ Cardinality(Printed("<--")) = ninv[bind] - Cardinality(Raises(bodylog))
    /\ \A j \in Raises(toplog) : toplog[j].ret = Exc(TargetError)
    /\ prog = "TraceR" =>
         /\ [j \in DOMAIN out |-> Says(out[j])] = TraceRLines(Len(toplog))
         /\ Cardinality(Raises(toplog)) = Cardinality(Raises(bodylog))

\* a call through trace(d)(R) raised: one entry line, no exit line
C12_Witness ==
  /\ prog = "TraceR"
  /\ Idle
  /\ Len(toplog) = 1
  /\ toplog[1].ret = Exc(TargetError)
  /\ Len(out) = 1
  /\ out[1].dir = "-->"

\* C13: n_ary(op)(x) returns x, whatever the value of x, and does not
\* invoke op: no step of a call with a single operand runs the body of the
\* binary operation, and the call returns its operand (through countcalls
\* and memo as well, in foo and bar).
C13_NarySingleOperandIsIdentity ==
  [][(/\ prog \in NaryProgs \cup {"foo", "bar"}
      /\ toplog' # <<>>
      /\ Len(toplog'[Len(toplog')].args) = 1)
       => LET c == toplog'[Len(toplog')]
          IN  /\ bodylog' = bodylog
              /\ c.ret.kind # "none" => c.ret = Val(c.args[1])]_vars

\* n_ary(op)(None) has returned None without a call of op
C13_Witness ==
  /\ prog = "NaryOp"
  /\ Idle
  /\ Len(toplog) = 1
  /\ toplog[1].args = <<None>>
  /\ toplog[1].ret = Val(None)
  /\ bodylog = <<>>

\* C14: the exit line of an invocation through a trace wrapper that returns
\* has the delimiter repetitions, the name and the arguments of its entry
\* line, and every line printed between the two has strictly more
\* repetitions; also for a target that catches the error of a recursive call
\* made through the wrapper.
C14_ExitLineMatchesEntryLine ==
  [][(Returned("trace", "wait") /\ ret.kind = "val"
        /\ Len(out') = Len(out) + 1)
       => LET entry == out[Top.i]
              exit == out'[Len(out')]
          IN  /\ exit.dir = "<--" /\ entry.dir = "-->"
              /\ exit.level = entry.level
              /\ exit.delimiter = entry.delimiter
              /\ exit.name = entry.name
              /\ exit.args = entry.args
              /\ \A k \in (Top.i + 1)..Len(out) :
                   out[k].level > entry.level]_vars

\* C15 as claimed: a memo cache only grows: no step removes a stored key
\* or changes the value stored for it, re-entrant invocations with the same
\* key included.
C15_CacheEntriesNeverChange ==
  [][\A m \in DOMAIN objs : \A k \in DOMAIN objs[m].cache :
       /\ k \in DOMAIN objs'[m].cache
       /\ objs'[m].cache[k] = objs[m].cache[k]]_vars

\* C15 as amended: no step removes a stored key, and no later invocation
\* changes the value stored for it; the value changes only when an enclosing
\* invocation of the same wrapper with the same key, which missed before the
\* entry was stored and is still waiting for its target, stores its own
\* result on return.
C15_CacheEntriesChangeOnlyByEnclosingMiss ==
  [][\A m \in DOMAIN objs : \A k \in DOMAIN objs[m].cache :
       /\ k \in DOMAIN objs'[m].cache
       /\ objs'[m].cache[k] # objs[m].cache[k] =>
            /\ Returned("memo", "wait")
            /\ Top.obj = m
            /\ all_args(Top) = k
            /\ ret.kind = "val"
            /\ objs'[m].cache[k] = ret.val]_vars

\* E called itself through the wrapper with its own arguments: the inner
\* invocation stored 10, the enclosing one replaced it by 11
C15_Witness ==
  /\ prog = "MemoE"
  /\ Idle
  /\ Len(toplog) = 1
  /\ toplog[1].ret = Val(11)
  /\ objs[bind].cache[KeyOf(toplog[1])] = 11
  /\ Len(bodylog) = 2
  /\ KeyOf(bodylog[1]) = KeyOf(bodylog[2])

\* keyword arguments as a map from names to values
KwMap(kw) ==
  [n \in {kw[j][1] : j \in DOMAIN kw} |->
     kw[CHOOSE j \in DOMAIN kw : kw[j][1] = n][2]]

\* the same call: equal positional tuples and equal keyword maps
SameCall(c, d) == c.args = d.args /\ KwMap(c.kwargs) = KwMap(d.kwargs)

\* C16: two calls to a memo wrapper share a cache entry iff their positional
\* tuples are equal and their keyword arguments are equal as maps: the keys
\* of two calls are equal exactly then, the target runs for a call exactly
\* when no same call was made before, and every call returns the result of
\* the target for its own arguments.
C16_CacheEntrySharedIffSameCall ==
  prog = "MemoKw" =>
    /\ \A i, j \in DOMAIN toplog :
         KeyOf(toplog[i]) = KeyOf(toplog[j]) <=> SameCall(toplog[i], toplog[j])
    /\ Idle =>
         /\ Len(bodylog)
              = Cardinality({j \in DOMAIN toplog :
                   \A i \in 1..(j - 1) : ~SameCall(toplog[i], toplog[j])})
         /\ Cardinality(DOMAIN objs[bind].cache) = Len(bodylog)
         /\ \A j \in DOMAIN toplog :
              toplog[j].ret = Val(TResult(toplog[j].args, toplog[j].kwargs))

\* f(a=1, b=2) and f(b=2, a=1) shared an entry; f(1) and f(a=1) did not
C16_Witness ==
  /\ prog = "MemoKw"
  /\ Idle
  /\ Len(toplog) = 4
  /\ toplog[1].args = <<>> /\ toplog[1].kwargs = << <<1, 1>>, <<2, 2>> >>
  /\ toplog[2].args = <<>> /\ toplog[2].kwargs = << <<2, 2>>, <<1, 1>> >>
  /\ toplog[3].args = <<1>> /\ toplog[3].kwargs = <<>>
  /\ toplog[4].args = <<>> /\ toplog[4].kwargs = << <<1, 1>> >>
  /\ Len(bodylog) = 3

\* the Fibonacci numbers with Fib(0) = Fib(1) = 1
RECURSIVE Fib(_)
Fib(n) == IF n <= 1 THEN 1 ELSE Fib(n - 1) + Fib(n - 2)

\* a first top-level call fib(N) has returned
FirstFib == prog = "fib" /\ Idle /\ Len(toplog) = 1
N == toplog[1].args[1]
RanFor == {bodylog[j].args[1] : j \in DOMAIN bodylog}

\* C17 as claimed: during a first top-level call fib(N) the body of fib is
\* executed exactly once for each k in 0..N, and the call returns Fib(N).
C17_FibBodyOnceForEachUpToN ==
  FirstFib =>
    /\ RanFor = 0..N
    /\ Len(bodylog) = N + 1
    /\ toplog[1].ret = Val(Fib(N))

\* C17 as amended: during a first top-level call fib(N) the body of fib is
\* executed at most once for any argument; it has been executed exactly
\* once for each k in 0..N when N is not 1, and for k = 1 only when N = 1
\* (fib(1) makes no recursive call); the call returns Fib(N).
C17_FibBodyOnceForEachReached ==
  (prog = "fib" /\ Len(toplog) = 1) =>
    /\ Len(bodylog) = Cardinality(RanFor)
    /\ Idle =>
         /\ RanFor = IF N = 1 THEN {1} ELSE 0..N
         /\ toplog[1].ret = Val(Fib(N))

\* a first fib(4) has returned 5 after five executions of the body
C17_Witness ==
  /\ FirstFib
  /\ N = 4
  /\ toplog[1].ret = Val(5)
  /\ Len(bodylog) = 5
  /\ ninv[1] = 5

\* C18: in foo = memo(countcalls(n_ary(foo))) the attribute calls of the
\* outer memo wrapper is the copy that functools.wraps made when memo was
\* applied: it stays 0, while the counter of the inner countcalls wrapper
\* has advanced once for every cache miss, the one in progress included
\* once it has reached the inner wrapper's increment.
C18_OuterCallsIsStaleCopy ==
  prog = "foo" =>
    /\ objs[bind].kind = "memo"
    /\ objs[bind].calls = 0
    /\ objs[Index("countcalls")].calls
         = Cardinality(DOMAIN objs[bind].cache)
           + (IF stack # <<>> /\ stack[1].pc = "wait" THEN 1 ELSE 0)
           - Pending(Index("countcalls"))

\* the calls of main(): foo(4, 3), foo(4, 3, 2), foo(4, 3); foo.calls is 0
\* and the inner counter is 2
C18_Witness ==
  /\ prog = "foo"
  /\ Idle
  /\ [j \in DOMAIN toplog |-> toplog[j].args]
       = << <<4, 3>>, <<4, 3, 2>>, <<4, 3>> >>
  /\ objs[bind].calls = 0
  /\ objs[Index("countcalls")].calls = 2

\* C19: in fib = countcalls(trace(memo(fib))) the recursive calls go through
\* the outermost wrapper and are counted: after a first top-level call
\* fib(N) with N >= 2, fib.calls is 2N - 1, and as many entry lines have
\* been printed.
C19_FibCallsIsTwoNMinusOne ==
  (FirstFib /\ N >= 2) =>
    /\ objs[bind].kind = "countcalls"
    /\ objs[bind].calls = 2 * N - 1
    /\ Cardinality(Printed("-->")) = objs[bind].calls

\* fib(3), as in main(): 5 calls made, five entry lines
C19_Witness ==
  /\ FirstFib
  /\ N = 3
  /\ objs[bind].calls = 5
  /\ Cardinality(Printed("-->")) = 5

====
